---- MODULE Spec2Model ----
(***************************************************************************)
(* A model of the opinion-analysis engine of Break-Bias:                   *)
(*   - Retriever (rag/retrieval/retriever.py) over a ChromaDB collection,  *)
(*   - DocumentProcessor / DocumentService (document ingestion, deletion,  *)
(*     re-indexing),                                                       *)
(*   - SentimentAnalyzer.analyze_single_comment,                           *)
(*   - OpinionAnalysisGenerator.generate_opinion_analysis,                 *)
(*   - ChatService.process_message, split at its await, with               *)
(*     get_conversation_history and clear_conversation,                    *)
(*   - the document service as concurrent requests (upload, reindex,       *)
(*     delete), split at the awaits of process_document,                   *)
(*   - CommentProcessor (collecting comments and adding them to the        *)
(*     store) and the engine's query_opinion operation.                    *)
(*                                                                         *)
(* Texts, comment ids and document ids are small integers.  Real numbers   *)
(* are integers in a fixed unit (distances and scores in 1/DistUnit,       *)
(* provider scores in 1/10, aggregates in 1/1000).                         *)
(***************************************************************************)
EXTENDS Integers, Sequences, FiniteSets, TLC

VARIABLES
    collection,         \* Retriever.collection: item id -> [content, metadata]
    legacy,             \* which ChromaDB behaviour the build has (see CollectionAdd)
    document_metadata,  \* DocumentService.document_metadata: document id -> status
    files,              \* documents_path: document id -> chunks of the stored file
    nextId,             \* number of document ids handed out so far
    result,             \* outcome of the last operation
    deleted,            \* document ids for which delete_document returned True
    produced,           \* document id -> processed_chunks of its latest ingestion
    ingestions,         \* document id -> number of ingestions that ran for it
    scored,             \* outcome of the last analyze_single_comment call
    generated,          \* outcome of the last generate_opinion_analysis call
    conversation_history, \* ChatService.conversation_history: id -> list object
    lists,              \* the list objects alive: name -> sequence of messages
    inflight,           \* process_message calls suspended on a provider call
    nextCall,           \* number of process_message calls started so far
    log,                \* conversation id -> every message appended for it, in order
    uploads,            \* upload_and_process_document calls suspended in process_document
    reindexes,          \* reindex_all_documents calls suspended in process_document
    nextReindex,        \* number of reindex_all_documents calls started so far
    edges               \* the status assignments made so far, as <<old, new>> pairs

chatVars == <<conversation_history, lists, inflight, nextCall, log>>

ingestVars == <<uploads, reindexes, nextReindex, edges>>

vars == <<collection, legacy, document_metadata, files, nextId, result,
          deleted, produced, ingestions, scored, generated, chatVars, ingestVars>>

(***************************************************************************)
(* Bounds of the model.                                                    *)
(***************************************************************************)
NumContents == 2    \* distinct chunk / comment texts
NumCids == 1        \* distinct provider comment ids
MaxDocs == 2        \* documents uploaded in one run
MaxChunks == 2      \* chunks of one document
MaxK == 2           \* largest top_k asked of retrieve
MaxQuery == 1       \* query texts 0..MaxQuery
MaxItems == 2       \* items added to the collection by direct add_document calls

Contents == 1..NumContents
Queries == 0..MaxQuery
CommentIds == 1..NumCids
DocIds == 1..MaxDocs
NoCid == 0
NoDoc == 0

Min(a, b) == IF a <= b THEN a ELSE b

Range(s) == {s[i] : i \in DOMAIN s}

SeqsUpTo(S, n) == UNION {[1..m -> S] : m \in 0..n}

(***************************************************************************)
(* Item ids.  add_document takes metadata["comment_id"] when present and   *)
(* str(hash(content)) otherwise; a document id is a uuid4 string.  The     *)
(* three kinds of string never coincide.                                   *)
(***************************************************************************)
HashId(content) == [kind |-> "hash", val |-> content]
CommentId(cid) == [kind |-> "comment", val |-> cid]
UuidId(d) == [kind |-> "uuid", val |-> d]

ItemId(content, metadata) ==
    IF metadata.comment_id # NoCid
    THEN CommentId(metadata.comment_id)
    ELSE HashId(content)

DocMetadata(d, i) == [comment_id |-> NoCid, document_id |-> d, chunk_index |-> i]

Item(content, metadata) == [content |-> content, metadata |-> metadata]

(***************************************************************************)
(* chromadb Collection.add(ids=[id], ...).  An id that is already in the   *)
(* collection is never replaced: older ChromaDB releases raise a           *)
(* duplicate-id error (legacy), newer ones ignore the new record.          *)
(***************************************************************************)
CollectionAdd(coll, leg, id, content, metadata) ==
    IF id \in DOMAIN coll
    THEN [coll |-> coll, raised |-> leg]
    ELSE [coll |-> coll @@ (id :> Item(content, metadata)), raised |-> FALSE]

(***************************************************************************)
(* Retriever.add_document: embed, derive the id, Collection.add; every     *)
(* exception is logged and re-raised.                                      *)
(***************************************************************************)
AddDocument(coll, leg, embOk, content, metadata) ==
    IF ~embOk
    THEN [coll |-> coll, raised |-> TRUE]
    ELSE CollectionAdd(coll, leg, ItemId(content, metadata), content, metadata)

(***************************************************************************)
(* Retriever.delete_document: Collection.delete(ids=[document_id]) removes *)
(* the items whose id is that string.                                      *)
(***************************************************************************)
CollectionDelete(coll, id) == [i \in DOMAIN coll \ {id} |-> coll[i]]

(***************************************************************************)
(* The embedding provider maps a text to a vector; here a one-dimensional  *)
(* vector, and the index distance is the squared L2 distance (the          *)
(* collection is created without an hnsw:space, so ChromaDB uses l2), in   *)
(* units of 1/DistUnit.                                                    *)
(***************************************************************************)
DistUnit == 2

Embed(text) == text

Distance(q, content) == (Embed(q) - Embed(content)) * (Embed(q) - Embed(content))

ScoreNoClamp(d) == DistUnit - d

\* retriever.py line 88: 1 - min(distance, 1)
Score(d) == DistUnit - Min(d, DistUnit)

(***************************************************************************)
(* Collection.query(n_results = k): the k nearest items in ascending       *)
(* order of distance; items at equal distance come in any order.           *)
(***************************************************************************)
RECURSIVE Nearest(_, _, _)
Nearest(coll, q, k) ==
    IF k = 0 \/ DOMAIN coll = {}
    THEN {<<>>}
    ELSE LET best == {i \in DOMAIN coll :
                        \A j \in DOMAIN coll :
                            Distance(q, coll[i].content) <= Distance(q, coll[j].content)}
         IN  UNION {{<<i>> \o t : t \in Nearest(CollectionDelete(coll, i), q, k - 1)} :
                        i \in best}

\* Whether Collection.query raises: n_results must be positive; older
\* releases also raise on an empty index and when n_results exceeds the count.
QueryRaises(coll, leg, k) ==
    \/ k <= 0
    \/ leg /\ (DOMAIN coll = {} \/ k > Cardinality(DOMAIN coll))

FormatDocs(coll, q, ids) ==
    [n \in 1..Len(ids) |->
        [content |-> coll[ids[n]].content,
         metadata |-> coll[ids[n]].metadata,
         score |-> Score(Distance(q, coll[ids[n]].content))]]

RetrieveOnErrorReraise == [raised |-> TRUE, docs |-> <<>>]

\* retriever.py lines 94-96: except Exception: log, return []
RetrieveOnError == [raised |-> FALSE, docs |-> <<>>]

(***************************************************************************)
(* Retriever.retrieve: the set of outcomes of retrieve(q, k); fail names   *)
(* the call that raises ("embedding": get_embeddings, "query": the index   *)
(* query for another reason than its arguments, "none").                   *)
(***************************************************************************)
RetrieveOutcomes(coll, leg, fail, q, k) ==
    IF fail = "embedding" \/ fail = "query" \/ QueryRaises(coll, leg, k)
    THEN {RetrieveOnError}
    ELSE {[raised |-> FALSE, docs |-> FormatDocs(coll, q, ids)] :
            ids \in Nearest(coll, q, k)}

(***************************************************************************)
(* DocumentProcessor._add_metadata: chunk i of document d gets the         *)
(* metadata {document_id: d, chunk_index: i, ...}; no comment_id.          *)
(***************************************************************************)
ProcessedChunks(d, chunks) ==
    [i \in 1..Len(chunks) |-> Item(chunks[i], DocMetadata(d, i - 1))]

(***************************************************************************)
(* The loop of DocumentProcessor.process_document: add_document for each   *)
(* processed chunk in order; the first exception ends the loop and         *)
(* propagates.  failAt is the chunk whose embedding call fails (0: none);  *)
(* attempted counts the add_document calls made.                           *)
(***************************************************************************)
RECURSIVE AddAll(_, _, _, _, _)
AddAll(coll, leg, pcs, i, failAt) ==
    IF i > Len(pcs)
    THEN [coll |-> coll, raised |-> FALSE, attempted |-> Len(pcs)]
    ELSE LET r == AddDocument(coll, leg, failAt # i, pcs[i].content, pcs[i].metadata)
         IN  IF r.raised
             THEN [coll |-> r.coll, raised |-> TRUE, attempted |-> i]
             ELSE AddAll(r.coll, leg, pcs, i + 1, failAt)

\* failure codes of one process_document run
LoadFails == -1
NoFailure == 0

(***************************************************************************)
(* DocumentProcessor.process_document: load (may raise), split, add        *)
(* metadata, add every chunk.                                              *)
(***************************************************************************)
ProcessDocument(coll, leg, d, chunks, f) ==
    IF f = LoadFails
    THEN [coll |-> coll, raised |-> TRUE, attempted |-> 0]
    ELSE AddAll(coll, leg, ProcessedChunks(d, chunks), 1, f)

\* The processed_chunks a run of process_document built (none when loading failed).
ProducedBy(d, chunks, f) ==
    IF f = LoadFails THEN {} ELSE Range(ProcessedChunks(d, chunks))

Without(fn, x) == [y \in DOMAIN fn \ {x} |-> fn[y]]

StatusAfter(raised) == IF raised THEN "failed" ELSE "completed"

(***************************************************************************)
(* DocumentService.upload_and_process_document: a fresh uuid4, the file    *)
(* written, status "processing", process_document, then "completed", or    *)
(* "failed" and the exception re-raised.                                   *)
(***************************************************************************)
Upload(chunks, f) ==
    /\ nextId < MaxDocs
    /\ LET d == nextId + 1
           r == ProcessDocument(collection, legacy, d, chunks, f)
       IN  /\ nextId' = d
           /\ files' = files @@ (d :> chunks)
           /\ collection' = r.coll
           /\ document_metadata' = document_metadata @@ (d :> StatusAfter(r.raised))
           /\ result' = [op |-> "upload", raised |-> r.raised, value |-> d,
                         loaded |-> f # LoadFails, chunks |-> Len(chunks),
                         attempted |-> r.attempted]
           /\ produced' = produced @@ (d :> ProducedBy(d, chunks, f))
           /\ ingestions' = ingestions @@ (d :> 1)
    /\ UNCHANGED <<legacy, deleted, scored, generated, chatVars, ingestVars>>

(***************************************************************************)
(* DocumentService.reindex_all_documents: in the order of the registry     *)
(* (insertion order, which is the order of the ids), every document whose  *)
(* status is "completed" and whose file exists is processed again; an      *)
(* exception marks it "failed" and the loop goes on.                       *)
(***************************************************************************)
ReindexEligibleAnyStatus(meta, d) == d \in DOMAIN meta /\ d \in DOMAIN files

ReindexEligibleOrFailed(meta, d) ==
    d \in DOMAIN meta /\ meta[d] \in {"completed", "failed"} /\ d \in DOMAIN files

\* document_service.py lines 87-89: status "completed" and the file exists
ReindexEligible(meta, d) ==
    d \in DOMAIN meta /\ meta[d] = "completed" /\ d \in DOMAIN files

RECURSIVE ReindexFrom(_, _, _)
ReindexFrom(st, d, fs) ==
    IF d > MaxDocs
    THEN st
    ELSE IF ReindexEligible(st.meta, d)
         THEN LET r == ProcessDocument(st.coll, legacy, d, files[d], fs[d])
              IN  ReindexFrom(
                    [coll |-> r.coll,
                     meta |-> [st.meta EXCEPT ![d] = StatusAfter(r.raised)],
                     produced |-> [st.produced EXCEPT ![d] = ProducedBy(d, files[d], fs[d])],
                     ingestions |-> [st.ingestions EXCEPT ![d] = Min(@ + 1, 2)]],
                    d + 1, fs)
         ELSE ReindexFrom(st, d + 1, fs)

Reindex(fs) ==
    LET st == ReindexFrom([coll |-> collection, meta |-> document_metadata,
                           produced |-> produced, ingestions |-> ingestions], 1, fs)
    IN  /\ collection' = st.coll
        /\ document_metadata' = st.meta
        /\ produced' = st.produced
        /\ ingestions' = st.ingestions
        /\ result' = [op |-> "reindex", raised |-> FALSE]
        /\ UNCHANGED <<legacy, files, nextId, deleted, scored, generated, chatVars, ingestVars>>

(***************************************************************************)
(* DocumentService.delete_document: False for an unknown id; otherwise the *)
(* file is removed, then Retriever.delete_document(document_id) (which     *)
(* re-raises a failure of the collection), then the registry entry.        *)
(***************************************************************************)
DeleteDocument(d, delOk) ==
    IF d \notin DOMAIN document_metadata
    THEN /\ result' = [op |-> "delete", raised |-> FALSE, value |-> FALSE, id |-> d]
         /\ UNCHANGED <<collection, legacy, document_metadata, files, nextId,
                        deleted, produced, ingestions, scored, generated, chatVars, ingestVars>>
    ELSE /\ files' = Without(files, d)
         /\ IF delOk
            THEN /\ collection' = CollectionDelete(collection, UuidId(d))
                 /\ document_metadata' = Without(document_metadata, d)
                 /\ deleted' = deleted \cup {d}
                 /\ result' = [op |-> "delete", raised |-> FALSE, value |-> TRUE, id |-> d]
            ELSE /\ result' = [op |-> "delete", raised |-> TRUE, value |-> FALSE, id |-> d]
                 /\ UNCHANGED <<collection, document_metadata, deleted>>
         /\ UNCHANGED <<legacy, nextId, produced, ingestions, scored, generated, chatVars, ingestVars>>

(***************************************************************************)
(* A call of Retriever.retrieve(q, k).                                     *)
(***************************************************************************)
Retrieve(q, k, fail) ==
    /\ \E o \in RetrieveOutcomes(collection, legacy, fail, q, k) :
          result' = [op |-> "retrieve", raised |-> o.raised, docs |-> o.docs,
                     q |-> q, k |-> k, failed |-> fail # "none"]
    /\ UNCHANGED <<collection, legacy, document_metadata, files, nextId,
                   deleted, produced, ingestions, scored, generated, chatVars, ingestVars>>

(***************************************************************************)
(* Direct calls of Retriever.add_document and Retriever.delete_document.   *)
(***************************************************************************)
CommentMetadata(cid, i) == [comment_id |-> cid, document_id |-> NoDoc, chunk_index |-> i]

\* Metadata of unchunked items: of a document's first chunk, of a whole comment.
Metadatas ==
    {DocMetadata(d, 0) : d \in DocIds} \cup {CommentMetadata(c, 0) : c \in CommentIds}

ItemIds ==
    {HashId(c) : c \in Contents} \cup {CommentId(c) : c \in CommentIds}
    \cup {UuidId(d) : d \in DocIds}

RetrieverAdd(content, metadata, embOk) ==
    /\ \/ ItemId(content, metadata) \in DOMAIN collection
       \/ Cardinality(DOMAIN collection) < MaxItems
    /\ LET r == AddDocument(collection, legacy, embOk, content, metadata)
       IN  /\ collection' = r.coll
           /\ result' = [op |-> "add", raised |-> r.raised, content |-> content,
                         metadata |-> metadata, embOk |-> embOk]
    /\ UNCHANGED <<legacy, document_metadata, files, nextId,
                   deleted, produced, ingestions, scored, generated, chatVars, ingestVars>>

RetrieverDelete(id, delOk) ==
    /\ collection' = IF delOk THEN CollectionDelete(collection, id) ELSE collection
    /\ result' = [op |-> "retriever_delete", raised |-> ~delOk, id |-> id]
    /\ UNCHANGED <<legacy, document_metadata, files, nextId,
                   deleted, produced, ingestions, scored, generated, chatVars, ingestVars>>

Empty == [x \in {} |-> 0]

\* The services after construction: an empty collection and registry.
InitServices ==
    /\ collection = Empty
    /\ legacy \in BOOLEAN
    /\ document_metadata = Empty
    /\ files = Empty
    /\ nextId = 0
    /\ result = [op |-> "none", raised |-> FALSE]
    /\ deleted = {}
    /\ produced = Empty
    /\ ingestions = Empty
    /\ conversation_history = Empty
    /\ lists = Empty
    /\ inflight = Empty
    /\ nextCall = 0
    /\ log = Empty
    /\ uploads = Empty
    /\ reindexes = Empty
    /\ nextReindex = 0
    /\ edges = {}

Init ==
    /\ InitServices
    /\ scored = [op |-> "none"]
    /\ generated = [op |-> "none"]

FailureCodes == LoadFails..MaxChunks

RetrieveFailures == {"none", "embedding", "query"}

\* The documents reindex_all_documents processes, and the failure codes that
\* make a difference to them.
Reindexed == {d \in DOMAIN document_metadata :
                document_metadata[d] = "completed" /\ d \in DOMAIN files}

ReindexFailures ==
    {fs \in [DocIds -> FailureCodes] :
        \A d \in DocIds : IF d \in Reindexed
                          THEN fs[d] <= Len(files[d])
                          ELSE fs[d] = NoFailure}

Next ==
    \/ \E chunks \in SeqsUpTo(Contents, MaxChunks) :
          \E f \in LoadFails..Len(chunks) : Upload(chunks, f)
    \/ \E fs \in ReindexFailures : Reindex(fs)
    \/ \E d \in DocIds, delOk \in BOOLEAN : DeleteDocument(d, delOk)
    \/ \E q \in Queries, k \in 0..MaxK, fail \in RetrieveFailures :
          Retrieve(q, k, fail)

Spec == Init /\ [][Next]_vars

NextRetriever ==
    \/ \E content \in Contents, metadata \in Metadatas, embOk \in BOOLEAN :
          RetrieverAdd(content, metadata, embOk)
    \/ \E id \in ItemIds, delOk \in BOOLEAN : RetrieverDelete(id, delOk)
    \/ \E q \in Queries, k \in 0..MaxK, fail \in RetrieveFailures :
          Retrieve(q, k, fail)

SpecRetriever == Init /\ [][NextRetriever]_vars

(***************************************************************************)
(* SentimentAnalyzer.analyze_single_comment.                               *)
(*                                                                         *)
(* The provider's text is a sequence of lines.  A line is                  *)
(*   "nocolon"    a line without ':' (skipped),                            *)
(*   "multicolon" a line with two or more ':' (line.split(':') yields more *)
(*                than two parts and the unpacking raises ValueError),     *)
(*   "kv"         a line "key: value" with exactly one ':'; parses says    *)
(*                whether float(value.strip()) succeeds, value is the      *)
(*                number in tenths.                                        *)
(* A sentiment vector is [positive, negative, neutral, den]: the three     *)
(* components are positive/den, negative/den and neutral/den.              *)
(***************************************************************************)
MaxLines == 3       \* lines of one provider response

ScoreKeys == {"positive", "negative", "neutral"}

\* key.strip().lower()
Normalize(key) == IF key = " Positive" THEN "positive" ELSE key

ScoreValues == {-5, 0, 5, 15}

KvLine(key, parses, value) ==
    [kind |-> "kv", key |-> key, parses |-> parses, value |-> value]

Lines ==
    {KvLine(key, TRUE, v) : key \in ScoreKeys, v \in ScoreValues}
    \cup {KvLine("positive", FALSE, 0), KvLine("other", TRUE, 5),
          KvLine(" Positive", TRUE, 5),
          [kind |-> "nocolon", key |-> "", parses |-> FALSE, value |-> 0],
          [kind |-> "multicolon", key |-> "", parses |-> FALSE, value |-> 0]}

NeutralVector == [positive |-> 0, negative |-> 0, neutral |-> 1, den |-> 1]

ZeroScores == [positive |-> 0, negative |-> 0, neutral |-> 0]

(***************************************************************************)
(* The parsing loop (lines 50-59): error is the ValueError of unpacking a  *)
(* line with more than one ':', which leaves the loop.                     *)
(***************************************************************************)
RECURSIVE ParseFrom(_, _, _)
ParseFrom(lines, i, scores) ==
    IF i > Len(lines)
    THEN [error |-> FALSE, scores |-> scores]
    ELSE LET line == lines[i]
         IN  IF line.kind = "nocolon"
             THEN ParseFrom(lines, i + 1, scores)
             ELSE IF line.kind = "multicolon"
             THEN [error |-> TRUE, scores |-> scores]
             ELSE IF line.parses /\ Normalize(line.key) \in ScoreKeys
             THEN ParseFrom(lines, i + 1,
                            [scores EXCEPT ![Normalize(line.key)] = line.value])
             ELSE ParseFrom(lines, i + 1, scores)

ScorerOnErrorReraise == [raised |-> TRUE, vector |-> NeutralVector]

\* sentiment_analyzer.py lines 67-69: except Exception: log, return neutral
ScorerOnError == [raised |-> FALSE, vector |-> NeutralVector]

\* lines 61-65: normalise by the total when it is positive, else neutral
Normalized(scores) ==
    LET total == scores.positive + scores.negative + scores.neutral
    IN  IF total > 0
        THEN [positive |-> scores.positive, negative |-> scores.negative,
              neutral |-> scores.neutral, den |-> total]
        ELSE NeutralVector

(***************************************************************************)
(* analyze_single_comment: llm says whether a model is configured,         *)
(* providerOk whether the provider call returns, lines is its text.        *)
(***************************************************************************)
AnalyzeSingleComment(llm, providerOk, lines) ==
    IF ~llm
    THEN [raised |-> FALSE, vector |-> NeutralVector]
    ELSE IF ~providerOk
    THEN ScorerOnError
    ELSE LET r == ParseFrom(lines, 1, ZeroScores)
         IN  IF r.error
             THEN ScorerOnError
             ELSE [raised |-> FALSE, vector |-> Normalized(r.scores)]

ScorerInputs ==
    {[llm |-> FALSE, providerOk |-> TRUE, lines |-> <<>>],
     [llm |-> TRUE, providerOk |-> FALSE, lines |-> <<>>]}
    \cup {[llm |-> TRUE, providerOk |-> TRUE, lines |-> ls] :
            ls \in SeqsUpTo(Lines, MaxLines)}

InitScorer ==
    /\ InitServices
    /\ generated = [op |-> "none"]
    /\ \E in \in ScorerInputs : scored = [op |-> "input", in |-> in]

Analyze ==
    /\ scored.op = "input"
    /\ LET r == AnalyzeSingleComment(scored.in.llm, scored.in.providerOk, scored.in.lines)
       IN  scored' = [op |-> "scored", in |-> scored.in,
                      raised |-> r.raised, vector |-> r.vector]
    /\ UNCHANGED <<collection, legacy, document_metadata, files, nextId, result,
                   deleted, produced, ingestions, generated, chatVars, ingestVars>>

NextScorer == Analyze

SpecScorer == InitScorer /\ [][NextScorer]_vars

(***************************************************************************)
(* OpinionAnalysisGenerator.generate_opinion_analysis.                     *)
(*                                                                         *)
(* An evidence item is described by what the scoring call for it does:     *)
(* providerOk and the lines of the provider's answer.  The call's input is *)
(* [genLlm, scorerLlm, narrativeOk, detailed, evidence]: whether the       *)
(* generator and its SentimentAnalyzer have a model, whether the narrative *)
(* call returns, the template flag, and the evidence.                      *)
(***************************************************************************)
MaxEvidence == 2    \* evidence items of one call

GenScores == {0, 5, 10}

ResponseLines(p, n, u) ==
    <<KvLine("positive", TRUE, p), KvLine("negative", TRUE, n), KvLine("neutral", TRUE, u)>>

EvidenceItems ==
    {[providerOk |-> FALSE, lines |-> <<>>]}
    \cup {[providerOk |-> TRUE, lines |-> ResponseLines(t[1], t[2], t[3])] :
            t \in {x \in GenScores \X GenScores \X GenScores : x[1] + x[2] + x[3] <= 10}}

\* _analyze_comment_sentiments lines 162-165: one analyze_single_comment per item
Sentiments(scorerLlm, evidence) ==
    [i \in 1..Len(evidence) |->
        AnalyzeSingleComment(scorerLlm, evidence[i].providerOk, evidence[i].lines)]

RECURSIVE DenProduct(_, _)
DenProduct(ss, i) == IF i = 0 THEN 1 ELSE ss[i].vector.den * DenProduct(ss, i - 1)

\* The sum of one component over the items, over the common denominator
\* DenProduct(ss, Len(ss)).
RECURSIVE ComponentSum(_, _, _)
ComponentSum(ss, c, i) ==
    IF i = 0
    THEN 0
    ELSE ss[i].vector[c] * (DenProduct(ss, Len(ss)) \div ss[i].vector.den)
            + ComponentSum(ss, c, i - 1)

(***************************************************************************)
(* round(num / den, 3) in thousandths.  An exact half rounds either way:   *)
(* Python rounds the binary float, which lies on one side of the decimal   *)
(* half or, when it is exact, goes to the even neighbour.                  *)
(***************************************************************************)
Round3(num, den) ==
    LET f == (1000 * num) \div den
        r == 1000 * num - f * den
    IN  IF 2 * r < den THEN {f}
        ELSE IF 2 * r > den THEN {f + 1}
        ELSE {f, f + 1}

\* lines 172-178: strict comparisons, every tie falls to "neutral"
DominantOf(p, n, u) ==
    IF p > n /\ p > u THEN "positive"
    ELSE IF n > p /\ n > u THEN "negative"
    ELSE "neutral"

(***************************************************************************)
(* _analyze_comment_sentiments for a non-empty list: the possible          *)
(* sentiment_stats.                                                        *)
(***************************************************************************)
SentimentStats(ss) ==
    LET den == DenProduct(ss, Len(ss)) * Len(ss)
        p == ComponentSum(ss, "positive", Len(ss))
        n == ComponentSum(ss, "negative", Len(ss))
        u == ComponentSum(ss, "neutral", Len(ss))
    IN  {[positive |-> rp, negative |-> rn, neutral |-> ru,
          total_comments |-> Len(ss), dominant |-> DominantOf(p, n, u)] :
            rp \in Round3(p, den), rn \in Round3(n, den), ru \in Round3(u, den)}

\* The provider calls the scoring of the evidence makes: one per item when
\* the analyzer has a model.
ScorerCalls(scorerLlm, evidence) == IF scorerLlm THEN Len(evidence) ELSE 0

GeneratorOnErrorNoStats(stats, calls) ==
    [raised |-> FALSE, text |-> "error", aggregate |-> Empty, stats |-> stats,
     provider_calls |-> calls]

\* generator.py lines 147-149: except Exception: return error_msg, sentiment_stats
GeneratorOnError(stats, calls) ==
    [raised |-> FALSE, text |-> "error", aggregate |-> stats, stats |-> stats,
     provider_calls |-> calls]

(***************************************************************************)
(* generate_opinion_analysis: the set of outcomes.                         *)
(***************************************************************************)
GenerateOutcomes(in) ==
    IF in.evidence = <<>>
    THEN {[raised |-> FALSE, text |-> "no_data", aggregate |-> Empty, stats |-> Empty,
           provider_calls |-> 0]}
    ELSE LET ss == Sentiments(in.scorerLlm, in.evidence)
             calls == ScorerCalls(in.scorerLlm, in.evidence)
         IN  IF \E i \in DOMAIN ss : ss[i].raised
             THEN {[raised |-> TRUE, text |-> "", aggregate |-> Empty, stats |-> Empty,
                    provider_calls |-> calls]}
             ELSE {IF ~in.genLlm
                   THEN [raised |-> FALSE, text |-> "dummy", aggregate |-> stats,
                         stats |-> stats, provider_calls |-> calls]
                   ELSE IF in.narrativeOk
                   THEN [raised |-> FALSE,
                         text |-> IF in.detailed THEN "analysis" ELSE "summary",
                         aggregate |-> stats, stats |-> stats,
                         provider_calls |-> calls + 1]
                   ELSE GeneratorOnError(stats, calls + 1) :
                        stats \in SentimentStats(ss)}

GeneratorInputs ==
    [genLlm : BOOLEAN, scorerLlm : BOOLEAN, narrativeOk : BOOLEAN, detailed : BOOLEAN,
     evidence : SeqsUpTo(EvidenceItems, MaxEvidence)]

InitGenerator ==
    /\ InitServices
    /\ scored = [op |-> "none"]
    /\ \E in \in GeneratorInputs : generated = [op |-> "input", in |-> in]

Generate ==
    /\ generated.op = "input"
    /\ \E o \in GenerateOutcomes(generated.in) :
          generated' = [op |-> "generated", in |-> generated.in, raised |-> o.raised,
                        text |-> o.text, aggregate |-> o.aggregate, stats |-> o.stats,
                        provider_calls |-> o.provider_calls]
    /\ UNCHANGED <<collection, legacy, document_metadata, files, nextId, result,
                   deleted, produced, ingestions, scored, chatVars, ingestVars>>

NextGenerator == Generate

SpecGenerator == InitGenerator /\ [][NextGenerator]_vars

(***************************************************************************)
(* generate_opinion_analysis over evidence that came out of the store: an  *)
(* item's metadata may hold the sentiment computed when it was ingested    *)
(* (sentiment_positive, sentiment_negative, sentiment_neutral).  Lines     *)
(* 108-116 copy content, author, like_count and video_title out of each    *)
(* item and nothing else, so the input of the scoring is the same with and *)
(* without stored sentiment.                                               *)
(***************************************************************************)
\* What the scoring call made for an item of the store does: the provider
\* fails, answers (1, 0, 0), or answers (0, 0.5, 0.5).
QueryScorings ==
    {[providerOk |-> FALSE, lines |-> <<>>],
     [providerOk |-> TRUE, lines |-> ResponseLines(10, 0, 0)],
     [providerOk |-> TRUE, lines |-> ResponseLines(0, 5, 5)]}

NoSentiment == [positive |-> 0, negative |-> 0, neutral |-> 0, den |-> 0]

StoredSentiments ==
    {NoSentiment, NeutralVector, [positive |-> 1, negative |-> 0, neutral |-> 0, den |-> 1]}

StoredEvidenceItems ==
    {[providerOk |-> e.providerOk, lines |-> e.lines, sentiment |-> v] :
        e \in QueryScorings, v \in StoredSentiments}

StoredInputs ==
    [genLlm : BOOLEAN, scorerLlm : BOOLEAN, narrativeOk : BOOLEAN, detailed : BOOLEAN,
     evidence : SeqsUpTo(StoredEvidenceItems, MaxEvidence)]

InitGeneratorStored ==
    /\ InitServices
    /\ scored = [op |-> "none"]
    /\ \E in \in StoredInputs : generated = [op |-> "input", in |-> in]

SpecGeneratorStored == InitGeneratorStored /\ [][NextGenerator]_vars

(***************************************************************************)
(* ChatService.process_message.                                            *)
(*                                                                         *)
(* conversation_history maps a conversation id to a Python list object.    *)
(* A call binds `history` to the stored object itself (or to a new empty   *)
(* list when the id is absent, which is not stored), appends to it in      *)
(* place, awaits the response, appends the reply and stores history[-20:], *)
(* a new object.  List objects are named by the event that created them.   *)
(* A message is the user message or the assistant reply of a call.         *)
(***************************************************************************)
MaxCalls == 11      \* process_message calls in one run
MaxInFlight == 2    \* process_message calls suspended at the same time
NumConversations == 1

HistoryLimit == 20

ConversationIds == 1..NumConversations

UserMessage(k) == [role |-> "user", call |-> k]
AssistantMessage(k) == [role |-> "assistant", call |-> k]

NewList(k) == [by |-> "new", call |-> k]
SliceList(k) == [by |-> "slice", call |-> k]

LastNOffByOne(s, n) == IF Len(s) <= n THEN s ELSE SubSeq(s, Len(s) - n + 2, Len(s))

\* s[-n:]
LastN(s, n) == IF Len(s) <= n THEN s ELSE SubSeq(s, Len(s) - n + 1, Len(s))

\* The list objects still referenced by the dictionary or by a suspended call.
Referenced(ls, hist, cs) ==
    [n \in {m \in DOMAIN ls :
              \/ \E c \in DOMAIN hist : hist[c] = m
              \/ \E k \in DOMAIN cs : cs[k].history = m} |-> ls[n]]

(***************************************************************************)
(* process_message up to its await (lines 52-57 and the call at 61-77):    *)
(* history = conversation_history.get(c, []); history.append(user).        *)
(***************************************************************************)
ChatBegin(c) ==
    /\ nextCall < MaxCalls
    /\ Cardinality(DOMAIN inflight) < MaxInFlight
    /\ LET k == nextCall + 1
           h == IF c \in DOMAIN conversation_history
                THEN conversation_history[c]
                ELSE NewList(k)
           before == IF h \in DOMAIN lists THEN lists[h] ELSE <<>>
       IN  /\ nextCall' = k
           /\ lists' = [n \in DOMAIN lists \cup {h} |->
                          IF n = h THEN Append(before, UserMessage(k)) ELSE lists[n]]
           /\ inflight' = inflight @@ (k :> [conv |-> c, history |-> h])
           /\ log' = [d \in DOMAIN log \cup {c} |->
                        IF d = c
                        THEN Append(IF c \in DOMAIN log THEN log[c] ELSE <<>>, UserMessage(k))
                        ELSE log[d]]
           /\ result' = [op |-> "chat_begin", raised |-> FALSE, call |-> k, conv |-> c]
    /\ UNCHANGED <<collection, legacy, document_metadata, files, nextId,
                   deleted, produced, ingestions, scored, generated,
                   conversation_history, ingestVars>>

(***************************************************************************)
(* process_message after its await: lines 80-87 when the response came     *)
(* (ok), lines 89-95 when the call raised.  Both append the assistant      *)
(* message to `history` and store history[-20:].                           *)
(***************************************************************************)
ChatEnd(k, ok) ==
    /\ k \in DOMAIN inflight
    /\ LET c == inflight[k].conv
           h == inflight[k].history
           full == Append(lists[h], AssistantMessage(k))
           cs == Without(inflight, k)
           hist == [d \in DOMAIN conversation_history \cup {c} |->
                      IF d = c THEN SliceList(k) ELSE conversation_history[d]]
       IN  /\ inflight' = cs
           /\ conversation_history' = hist
           /\ lists' = Referenced([lists EXCEPT ![h] = full]
                                    @@ (SliceList(k) :> LastN(full, HistoryLimit)),
                                  hist, cs)
           /\ log' = [log EXCEPT ![c] = Append(@, AssistantMessage(k))]
           /\ result' = [op |-> "chat", raised |-> FALSE, call |-> k, conv |-> c,
                         error |-> ~ok]
    /\ UNCHANGED <<collection, legacy, document_metadata, files, nextId,
                   deleted, produced, ingestions, scored, generated, nextCall,
                   ingestVars>>

\* get_conversation_history(c) as a sequence of messages
History(c) ==
    IF c \in DOMAIN conversation_history THEN lists[conversation_history[c]] ELSE <<>>

NextChat ==
    \/ \E c \in ConversationIds : ChatBegin(c)
    \/ \E k \in DOMAIN inflight, ok \in BOOLEAN : ChatEnd(k, ok)

\* The chat service does not touch the collection: one build is enough.
InitChat == Init /\ ~legacy

SpecChat == InitChat /\ [][NextChat]_vars

(***************************************************************************)
(* ChatService.get_conversation_history and clear_conversation, and the    *)
(* chat service under sequential use: a process_message call on an id      *)
(* starts only when no other call on that id is in flight.  Neither getter *)
(* nor clear awaits anything, so each is one step.                         *)
(***************************************************************************)
\* An id no process_message call was ever made with.
StrangerId == 0

ClearedHistoryDropAll(hist, c) == Empty

\* chat_service.py lines 150-151: if c in conversation_history: del ...[c]
ClearedHistory(hist, c) == IF c \in DOMAIN hist THEN Without(hist, c) ELSE hist

ClearConversation(c) ==
    /\ conversation_history' = ClearedHistory(conversation_history, c)
    /\ lists' = Referenced(lists, ClearedHistory(conversation_history, c), inflight)
    /\ result' = [op |-> "clear", raised |-> FALSE, conv |-> c]
    /\ UNCHANGED <<collection, legacy, document_metadata, files, nextId,
                   deleted, produced, ingestions, scored, generated,
                   inflight, nextCall, log, ingestVars>>

\* lines 145-146: conversation_history.get(c, []) turned into a list of dicts
GetConversationHistory(c) ==
    /\ result' = [op |-> "history", raised |-> FALSE, conv |-> c, value |-> History(c)]
    /\ UNCHANGED <<collection, legacy, document_metadata, files, nextId,
                   deleted, produced, ingestions, scored, generated,
                   chatVars, ingestVars>>

\* A process_message call on c made while no other call on c is in flight.
ChatBeginSequential(c) ==
    /\ \A k \in DOMAIN inflight : inflight[k].conv # c
    /\ ChatBegin(c)

\* The entries of conversation_history are independent of each other (no
\* code reads or writes another key than its conversation_id), so sequential
\* use is followed on one conversation, next to the id that is never used.
FirstConversation == 1

NextConversations ==
    \/ ChatBeginSequential(FirstConversation)
    \/ \E k \in DOMAIN inflight, ok \in BOOLEAN : ChatEnd(k, ok)
    \/ \E c \in {FirstConversation, StrangerId} : ClearConversation(c)
    \/ \E c \in {FirstConversation, StrangerId} : GetConversationHistory(c)

SpecConversations == InitChat /\ [][NextConversations]_vars

(***************************************************************************)
(* Both services side by side, for the operations that take an id: a few   *)
(* conversation turns and uploads build the registries, and               *)
(* clear_conversation, get_conversation_history and delete_document are    *)
(* called with known and unknown ids.                                      *)
(***************************************************************************)
MaxTurns == 2       \* process_message calls in one run of both services

NextUnknownIds ==
    \/ nextCall < MaxTurns /\ ChatBeginSequential(FirstConversation)
    \/ \E k \in DOMAIN inflight, ok \in BOOLEAN : ChatEnd(k, ok)
    \/ \E c \in {FirstConversation, StrangerId} : ClearConversation(c)
    \/ \E c \in {FirstConversation, StrangerId} : GetConversationHistory(c)
    \/ \E chunks \in {<<>>, [i \in 1..MaxChunks |-> Min(i, NumContents)]} :
          \E f \in {LoadFails, NoFailure} : Upload(chunks, f)
    \/ \E d \in DocIds \cup {NoDoc}, delOk \in BOOLEAN : DeleteDocument(d, delOk)

SpecUnknownIds == Init /\ [][NextUnknownIds]_vars

(***************************************************************************)
(* The document service as concurrent requests on one event loop.          *)
(*                                                                         *)
(* process_document runs synchronously up to the embedding call of the     *)
(* first chunk (Retriever.add_document awaits get_embeddings) and is       *)
(* suspended there once per chunk; everything between two suspensions is   *)
(* one step.  An upload in flight is uploads[d] with the chunks it loaded  *)
(* and the chunk it awaits; a reindex in flight is reindexes[r] with the   *)
(* document, its chunks and the chunk it awaits, the registry size its     *)
(* dict iterator was created with, and whether a document failed in it.    *)
(* delete_document has no suspension point (Retriever.delete_document      *)
(* awaits nothing), so it is one step.                                     *)
(***************************************************************************)
MaxReindexes == 1   \* reindex_all_documents calls in one run
MaxTasks == 2       \* upload and reindex calls suspended at the same time

NoStatus == "absent"

\* No call has returned in this step: the one that ran is suspended.
Suspended == [op |-> "suspended", raised |-> FALSE]

InFlight == Cardinality(DOMAIN uploads) + Cardinality(DOMAIN reindexes)

\* process_document lines 37-47, up to the first add_document call
ProcessStart(chunks, loadOk) ==
    IF ~loadOk THEN "raised"
    ELSE IF chunks = <<>> THEN "done"
    ELSE "suspended"

\* One add_document of process_document (lines 47-51) resumed with the
\* result of its embedding call: the add, then the next chunk's call.
ProcessResume(coll, leg, d, chunks, i, embOk) ==
    LET r == AddDocument(coll, leg, embOk, chunks[i], DocMetadata(d, i - 1))
    IN  [coll |-> r.coll,
         state |-> IF r.raised THEN "raised"
                   ELSE IF i = Len(chunks) THEN "done"
                   ELSE "suspended"]

UploadOnErrorSwallow == [status |-> "failed", raised |-> FALSE]

UploadOnErrorLeavesProcessing == [status |-> "processing", raised |-> TRUE]

\* document_service.py lines 50-52: status "failed", raise e
UploadOnError == [status |-> "failed", raised |-> TRUE]

\* lines 47-48 and 54: status "completed", return document_id
UploadOnSuccess == [status |-> "completed", raised |-> FALSE]

UploadOutcome(state) == IF state = "raised" THEN UploadOnError ELSE UploadOnSuccess

UploadResult(d, state) ==
    [op |-> "upload", raised |-> UploadOutcome(state).raised, value |-> d,
     failed |-> state = "raised"]

\* Lines 48 and 51 look the entry up again: when the document was deleted
\* meanwhile the lookup raises KeyError, after a success (inside the try, and
\* then again in the handler) as well as after a failure (in the handler).
UploadKeyError(d, state) ==
    [op |-> "upload", raised |-> TRUE, value |-> d, failed |-> state = "raised"]

(***************************************************************************)
(* upload_and_process_document up to its first suspension in               *)
(* process_document (lines 25-45).                                         *)
(***************************************************************************)
UploadBegin(chunks, loadOk) ==
    /\ nextId < MaxDocs
    /\ InFlight < MaxTasks
    /\ LET d == nextId + 1
           state == ProcessStart(chunks, loadOk)
       IN  /\ nextId' = d
           /\ files' = files @@ (d :> chunks)
           /\ IF state = "suspended"
              THEN /\ document_metadata' = document_metadata @@ (d :> "processing")
                   /\ uploads' = uploads @@ (d :> [i |-> 1, chunks |-> chunks])
                   /\ edges' = edges \cup {<<NoStatus, "processing">>}
                   /\ result' = Suspended
              ELSE /\ document_metadata' =
                        document_metadata @@ (d :> UploadOutcome(state).status)
                   /\ uploads' = uploads
                   /\ edges' = edges \cup {<<NoStatus, "processing">>,
                                           <<"processing", UploadOutcome(state).status>>}
                   /\ result' = UploadResult(d, state)
    /\ UNCHANGED <<collection, legacy, deleted, produced, ingestions, scored, generated,
                   chatVars, reindexes, nextReindex>>

(***************************************************************************)
(* An upload resumed with the result of an embedding call.                 *)
(***************************************************************************)
UploadStep(d, embOk) ==
    /\ d \in DOMAIN uploads
    /\ LET p == ProcessResume(collection, legacy, d, uploads[d].chunks, uploads[d].i, embOk)
       IN  /\ collection' = p.coll
           /\ IF p.state = "suspended"
              THEN /\ uploads' = [uploads EXCEPT ![d].i = @ + 1]
                   /\ result' = Suspended
                   /\ UNCHANGED <<document_metadata, edges>>
              ELSE IF d \notin DOMAIN document_metadata
              THEN /\ uploads' = Without(uploads, d)
                   /\ result' = UploadKeyError(d, p.state)
                   /\ UNCHANGED <<document_metadata, edges>>
              ELSE /\ uploads' = Without(uploads, d)
                   /\ document_metadata' =
                        [document_metadata EXCEPT ![d] = UploadOutcome(p.state).status]
                   /\ edges' = edges \cup {<<document_metadata[d],
                                             UploadOutcome(p.state).status>>}
                   /\ result' = UploadResult(d, p.state)
    /\ UNCHANGED <<legacy, files, nextId, deleted, produced, ingestions, scored,
                   generated, chatVars, reindexes, nextReindex>>

(***************************************************************************)
(* The loop of reindex_all_documents from document d on, up to its next    *)
(* suspension: lines 86-95.  A document whose loading fails is marked      *)
(* "failed" and the loop goes on within the same step.                     *)
(***************************************************************************)
RECURSIVE ReindexLoop(_, _, _)
ReindexLoop(st, d, loads) ==
    IF d > MaxDocs
    THEN [st EXCEPT !.at = NoDoc]
    ELSE IF ReindexEligible(st.meta, d)
         THEN LET state == ProcessStart(files[d], loads[d])
                  seen == [st EXCEPT !.edges = @ \cup {<<st.meta[d], "processing">>}]
              IN  IF state = "suspended"
                  THEN [seen EXCEPT !.meta[d] = "processing", !.at = d]
                  ELSE ReindexLoop(
                         [seen EXCEPT !.meta[d] = StatusAfter(state = "raised"),
                                      !.edges = @ \cup {<<"processing",
                                                          StatusAfter(state = "raised")>>},
                                      !.failed = @ \/ state = "raised"],
                         d + 1, loads)
         ELSE ReindexLoop(st, d + 1, loads)

\* The loading outcomes that matter to a loop: of the documents it may start.
LoadChoices(meta) ==
    {l \in [DocIds -> BOOLEAN] : \A d \in DocIds : ReindexEligible(meta, d) \/ l[d]}

ReindexResult(raised, st) ==
    [op |-> "reindex", raised |-> raised, failed |-> st.failed]

\* What a step of the loop leaves: the call suspended at st.at, or finished.
ReindexSettle(r, size, st) ==
    /\ document_metadata' = st.meta
    /\ edges' = st.edges
    /\ IF st.at = NoDoc
       THEN /\ reindexes' = Without(reindexes, r)
            /\ result' = ReindexResult(FALSE, st)
       ELSE /\ reindexes' =
                 [x \in DOMAIN reindexes \cup {r} |->
                    IF x = r
                    THEN [doc |-> st.at, i |-> 1, chunks |-> files[st.at], size |-> size,
                          failed |-> st.failed]
                    ELSE reindexes[x]]
            /\ result' = Suspended

(***************************************************************************)
(* reindex_all_documents up to its first suspension.  The iterator of      *)
(* document_metadata.items() remembers the size of the dictionary.         *)
(***************************************************************************)
ReindexBegin(loads) ==
    /\ nextReindex < MaxReindexes
    /\ InFlight < MaxTasks
    /\ nextReindex' = nextReindex + 1
    /\ ReindexSettle(nextReindex + 1, Cardinality(DOMAIN document_metadata),
                     ReindexLoop([meta |-> document_metadata, edges |-> edges, at |-> NoDoc,
                                  failed |-> FALSE],
                                 1, loads))
    /\ UNCHANGED <<collection, legacy, files, nextId, deleted, produced, ingestions,
                   scored, generated, chatVars, uploads>>

(***************************************************************************)
(* A reindex resumed with the result of an embedding call.  The status is  *)
(* assigned to the DocumentInfo object the loop holds, which is the        *)
(* registry's entry unless the document was deleted meanwhile.  When the   *)
(* document is finished the loop asks the iterator for the next entry,     *)
(* which raises RuntimeError (dictionary changed size during iteration)    *)
(* if the registry has another size than when the loop started.            *)
(***************************************************************************)
ReindexStep(r, embOk, loads) ==
    /\ r \in DOMAIN reindexes
    /\ LET t == reindexes[r]
           d == t.doc
           p == ProcessResume(collection, legacy, d, t.chunks, t.i, embOk)
           status == StatusAfter(p.state = "raised")
           st == [meta |-> IF d \in DOMAIN document_metadata
                           THEN [document_metadata EXCEPT ![d] = status]
                           ELSE document_metadata,
                  edges |-> edges \cup {<<"processing", status>>},
                  at |-> NoDoc, failed |-> t.failed \/ p.state = "raised"]
       IN  /\ collection' = p.coll
           /\ IF p.state = "suspended"
              THEN /\ reindexes' = [reindexes EXCEPT ![r].i = @ + 1]
                   /\ result' = Suspended
                   /\ UNCHANGED <<document_metadata, edges>>
              ELSE IF Cardinality(DOMAIN document_metadata) # t.size
              THEN /\ document_metadata' = st.meta
                   /\ edges' = st.edges
                   /\ reindexes' = Without(reindexes, r)
                   /\ result' = ReindexResult(TRUE, st)
              ELSE ReindexSettle(r, t.size, ReindexLoop(st, d + 1, loads))
    /\ UNCHANGED <<legacy, files, nextId, deleted, produced, ingestions, scored,
                   generated, chatVars, uploads, nextReindex>>

\* The files uploaded: no chunk, chunks of different texts, chunks of one text.
IngestFiles ==
    {<<>>, [i \in 1..MaxChunks |-> Min(i, NumContents)], [i \in 1..MaxChunks |-> 1]}

NextIngest ==
    \/ \E chunks \in IngestFiles, loadOk \in BOOLEAN :
          UploadBegin(chunks, loadOk)
    \/ \E d \in DOMAIN uploads, embOk \in BOOLEAN : UploadStep(d, embOk)
    \/ \E loads \in LoadChoices(document_metadata) : ReindexBegin(loads)
    \/ \E r \in DOMAIN reindexes, embOk \in BOOLEAN :
          \E loads \in LoadChoices(document_metadata) : ReindexStep(r, embOk, loads)

SpecIngest == Init /\ [][NextIngest]_vars

(***************************************************************************)
(* Every provider call eventually returns or raises: a suspended upload    *)
(* and a suspended reindex are eventually resumed.                         *)
(***************************************************************************)
ProviderCallsReturn ==
    /\ \A d \in DocIds : WF_vars(\E embOk \in BOOLEAN : UploadStep(d, embOk))
    /\ \A r \in 1..MaxReindexes :
          WF_vars(\E embOk \in BOOLEAN :
                     \E loads \in LoadChoices(document_metadata) :
                        ReindexStep(r, embOk, loads))

(***************************************************************************)
(* The requests that set or remove a status, for following each document   *)
(* to the end of its processing: uploads of one file of different chunks   *)
(* (loading may fail, each embedding call may fail), reindex calls and     *)
(* delete_document calls, on one build.                                    *)
(***************************************************************************)
NextProgress ==
    \/ \E loadOk \in BOOLEAN :
          UploadBegin([i \in 1..MaxChunks |-> Min(i, NumContents)], loadOk)
    \/ \E d \in DOMAIN uploads, embOk \in BOOLEAN : UploadStep(d, embOk)
    \/ \E loads \in LoadChoices(document_metadata) : ReindexBegin(loads)
    \/ \E r \in DOMAIN reindexes, embOk \in BOOLEAN :
          \E loads \in LoadChoices(document_metadata) : ReindexStep(r, embOk, loads)
    \/ \E d \in DocIds, delOk \in BOOLEAN : DeleteDocument(d, delOk)

InitProgress == Init /\ ~legacy

SpecProgress == InitProgress /\ [][NextProgress]_vars /\ ProviderCallsReturn

\* The same requests together with delete_document calls.
NextIngestDelete ==
    \/ NextIngest
    \/ \E d \in DocIds, delOk \in BOOLEAN : DeleteDocument(d, delOk)

SpecIngestDelete == Init /\ [][NextIngestDelete]_vars

(***************************************************************************)
(* CommentProcessor: collecting comments and adding them to the store.     *)
(*                                                                         *)
(* A raw comment text is [length, blanks, symbols]: the number of          *)
(* characters _clean_comment_text keeps, the number of blanks it removes   *)
(* (leading, trailing and repeated white space), and whether the text has  *)
(* no letter or digit at all.  The YouTube client calls are synchronous    *)
(* and _process_comments is a plain function, so a collection runs up to   *)
(* its first add_document without being suspended.                         *)
(***************************************************************************)
MaxComments == 3    \* comments the comment source returns for one call

MinCommentLength == 10

\* The number of characters of a chunk text after normalization: text 1 has
\* 9 characters, text 2 has 10, and so on.
TextLength(content) == 8 + content

RawText(length, blanks, symbols) ==
    [length |-> length, blanks |-> blanks, symbols |-> symbols]

\* Texts of 6, 8 and 9 characters, a text of 9 characters among 3 blanks, a
\* text of 10 characters, and 12 punctuation marks.
CommentTexts ==
    {RawText(6, 0, FALSE), RawText(8, 0, FALSE), RawText(9, 0, FALSE),
     RawText(9, 3, FALSE), RawText(10, 0, FALSE), RawText(12, 0, TRUE)}

RawLength(text) == text.length + text.blanks

\* _clean_comment_text (lines 245-263): strip, collapse white space, and ""
\* for a text without letters and digits
CleanCommentText(text) ==
    IF text.symbols THEN RawText(0, 0, FALSE) ELSE RawText(text.length, 0, FALSE)

CleanedLength(text) == RawLength(CleanCommentText(text))

(***************************************************************************)
(* _process_comments (lines 190-243) from comment i on.  A comment whose   *)
(* cleaned text has fewer than 10 characters is skipped.  For any other    *)
(* comment line 204 calls the coroutine function analyze_single_comment    *)
(* without await, and line 215 subscripts the coroutine object it got:     *)
(* TypeError.  So the function either raises or returns the empty list,    *)
(* and lines 222-241 (metadata, chunking of long comments) never run.      *)
(***************************************************************************)
RECURSIVE ProcessComments(_, _)
ProcessComments(comments, i) ==
    IF i > Len(comments)
    THEN [raised |-> FALSE, processed |-> <<>>]
    ELSE IF CleanedLength(comments[i]) < MinCommentLength
         THEN ProcessComments(comments, i + 1)
         ELSE [raised |-> TRUE, processed |-> <<>>]

\* The loop of add_document calls over the processed comments (lines
\* 155-159 and 182-186).
RECURSIVE AddProcessed(_, _, _, _)
AddProcessed(coll, leg, processed, i) ==
    IF i > Len(processed)
    THEN [coll |-> coll, raised |-> FALSE]
    ELSE LET r == AddDocument(coll, leg, TRUE, processed[i].content, processed[i].metadata)
         IN  IF r.raised THEN r ELSE AddProcessed(r.coll, leg, processed, i + 1)

CollectResult(op, comments, raised, chunks) ==
    [op |-> op, raised |-> raised, comments |-> comments,
     collected |-> Len(comments), chunks |-> chunks]

(***************************************************************************)
(* collect_and_process_video_comments (lines 163-188) for the comments the *)
(* source returned: _process_comments, the adds, then                      *)
(* (len(comments), len(processed_comments)).                               *)
(***************************************************************************)
CollectVideoComments(comments) ==
    /\ LET p == ProcessComments(comments, 1)
           r == AddProcessed(collection, legacy, p.processed, 1)
       IN  IF p.raised
           THEN /\ result' = CollectResult("collect_video", comments, TRUE, 0)
                /\ UNCHANGED collection
           ELSE /\ collection' = r.coll
                /\ result' = CollectResult("collect_video", comments, r.raised,
                                           Len(p.processed))
    /\ UNCHANGED <<legacy, document_metadata, files, nextId,
                   deleted, produced, ingestions, scored, generated, chatVars, ingestVars>>

(***************************************************************************)
(* collect_and_process_comments (lines 140-161): line 151 awaits the       *)
(* return value of the plain function _process_comments.  When that call   *)
(* has not raised its value is a list, and awaiting a list raises          *)
(* TypeError: the call raises for every list of comments.                  *)
(***************************************************************************)
CollectTopicComments(comments) ==
    /\ result' = CollectResult("collect_topic", comments, TRUE, 0)
    /\ UNCHANGED <<collection, legacy, document_metadata, files, nextId,
                   deleted, produced, ingestions, scored, generated, chatVars, ingestVars>>

(***************************************************************************)
(* query_opinion: retrieve(query, top_k), then generate_opinion_analysis   *)
(* over what was retrieved, by a generator that has a model.  scoring      *)
(* tells, for each retrieved item, what the scoring call made for it does. *)
(***************************************************************************)
QueryOpinion(q, k, scorerLlm, narrativeOk) ==
    /\ \E o \in RetrieveOutcomes(collection, legacy, "none", q, k) :
          \E scoring \in [1..Len(o.docs) -> QueryScorings] :
             \E g \in GenerateOutcomes([genLlm |-> TRUE, scorerLlm |-> scorerLlm,
                                        narrativeOk |-> narrativeOk, detailed |-> TRUE,
                                        evidence |-> scoring]) :
                result' = [op |-> "query_opinion", raised |-> g.raised, text |-> g.text,
                           aggregate |-> g.aggregate, k |-> k, docs |-> o.docs]
    /\ UNCHANGED <<collection, legacy, document_metadata, files, nextId,
                   deleted, produced, ingestions, scored, generated, chatVars, ingestVars>>

NextComments ==
    \/ \E comments \in SeqsUpTo(CommentTexts, MaxComments) : CollectVideoComments(comments)
    \/ \E comments \in SeqsUpTo(CommentTexts, MaxComments) : CollectTopicComments(comments)
    \/ Upload([i \in 1..MaxChunks |-> Min(i, NumContents)], NoFailure)
    \/ \E q \in Queries, k \in 1..MaxComments :
          \E scorerLlm \in BOOLEAN, narrativeOk \in BOOLEAN :
             QueryOpinion(q, k, scorerLlm, narrativeOk)

SpecComments == Init /\ [][NextComments]_vars

(***************************************************************************)
(* Claims about the store: deletion, re-ingestion, add, retrieve.          *)
(***************************************************************************)
ItemsOf(d) == {collection[i] : i \in {j \in DOMAIN collection :
                                        collection[j].metadata.document_id = d}}

\* C1: once delete_document(id) has returned True, the collection holds no
\* item whose metadata document_id is id, and no retrieve returns one.
C1_DeletedSourceHasNoItems ==
    /\ \A d \in deleted : ItemsOf(d) = {}
    /\ result.op = "retrieve" =>
          \A n \in DOMAIN result.docs : result.docs[n].metadata.document_id \notin deleted

\* C2: a document that was ingested twice (upload, then reindex) and whose
\* latest ingestion completed has in the collection exactly the items that
\* ingestion produced.
C2_ReingestKeepsLatestOnly ==
    \A d \in DOMAIN document_metadata :
        (ingestions[d] >= 2 /\ document_metadata[d] = "completed")
            => ItemsOf(d) = produced[d]

\* C3: add_document is an upsert by item id: after a call whose embedding
\* succeeded, the call has not raised and the collection holds, under the
\* item's id, the content and metadata of that call.
C3_AddIsUpsert ==
    (result.op = "add" /\ result.embOk) =>
        /\ ~result.raised
        /\ ItemId(result.content, result.metadata) \in DOMAIN collection
        /\ collection[ItemId(result.content, result.metadata)]
              = Item(result.content, result.metadata)

\* C4: retrieve(q, k) returns at most k results, each score within [0, 1],
\* in non-increasing order of score, and nothing from an empty collection.
C4_RetrieveBoundedSorted ==
    result.op = "retrieve" =>
        /\ Len(result.docs) <= result.k
        /\ \A n \in DOMAIN result.docs :
              result.docs[n].score >= 0 /\ result.docs[n].score <= DistUnit
        /\ \A n \in 1..(Len(result.docs) - 1) :
              result.docs[n].score >= result.docs[n + 1].score
        /\ DOMAIN collection = {} => result.docs = <<>>

\* A retrieve that returned two results of different score, the second one
\* farther than distance 1 from the query (its score clamped to 0).
C4_Witness ==
    /\ result.op = "retrieve"
    /\ Len(result.docs) = 2
    /\ result.docs[1].score > result.docs[2].score
    /\ Distance(result.q, result.docs[2].content) > DistUnit
    /\ result.docs[2].score = 0

\* C5: retrieve never raises; when the embedding call or the index query
\* fails it returns the empty list; and it leaves the collection unchanged.
C5_RetrieveNeverRaises ==
    [][result'.op = "retrieve" =>
          /\ ~result'.raised
          /\ result'.failed => result'.docs = <<>>
          /\ collection' = collection]_vars

\* A retrieve over a non-empty collection whose provider call failed.
C5_Witness ==
    /\ result.op = "retrieve"
    /\ result.failed
    /\ ~result.raised
    /\ result.docs = <<>>
    /\ DOMAIN collection # {}

(***************************************************************************)
(* Claims about analyze_single_comment.                                    *)
(***************************************************************************)
IsNeutral(v) == v.positive = 0 /\ v.negative = 0 /\ v.neutral = v.den

\* A line the decoder takes a score from: one ':', a known key, a number.
Parseable(line) ==
    line.kind = "kv" /\ line.parses /\ Normalize(line.key) \in ScoreKeys

\* The value of the last parseable line for a key (0 when there is none).
RECURSIVE LastValue(_, _, _)
LastValue(lines, key, i) ==
    IF i = 0
    THEN 0
    ELSE IF Parseable(lines[i]) /\ Normalize(lines[i].key) = key
         THEN lines[i].value
         ELSE LastValue(lines, key, i - 1)

AllParsedZero(lines) ==
    \A key \in ScoreKeys : LastValue(lines, key, Len(lines)) = 0

\* C9: analyze_single_comment never raises, and returns the neutral vector
\* when no model is configured, when the provider call fails, when no line
\* of the output is parseable (lines with more than one colon included), or
\* when the three parsed values are all zero.
C9_ScorerFailSafe ==
    scored.op = "scored" =>
        /\ ~scored.raised
        /\ (\/ ~scored.in.llm
            \/ ~scored.in.providerOk
            \/ \A i \in DOMAIN scored.in.lines : ~Parseable(scored.in.lines[i])
            \/ AllParsedZero(scored.in.lines))
              => scored.vector = NeutralVector

\* A response with a parseable non-zero line followed by a line with more
\* than one colon: the unpacking error is caught and the result is neutral.
C9_Witness ==
    /\ scored.op = "scored"
    /\ scored.in.llm /\ scored.in.providerOk
    /\ Len(scored.in.lines) >= 2
    /\ Parseable(scored.in.lines[1]) /\ scored.in.lines[1].value > 0
    /\ scored.in.lines[2].kind = "multicolon"
    /\ ~scored.raised
    /\ scored.vector = NeutralVector

\* C10: every vector analyze_single_comment returns has its components in
\* [0, 1] and summing to 1.
C10_VectorIsDistribution ==
    scored.op = "scored" =>
        LET v == scored.vector
        IN  /\ v.den > 0
            /\ \A c \in {v.positive, v.negative, v.neutral} : 0 <= c /\ c <= v.den
            /\ v.positive + v.negative + v.neutral = v.den

(***************************************************************************)
(* Claims about generate_opinion_analysis.                                 *)
(***************************************************************************)
AggregateKeys == {"positive", "negative", "neutral", "dominant", "total_comments"}

\* C6: with empty evidence generate_opinion_analysis calls no provider and
\* returns the no-data response with an aggregate that has positive,
\* negative, neutral, dominant and a total of 0 items.
C6_NoDataAggregate ==
    (generated.op = "generated" /\ generated.in.evidence = <<>>) =>
        /\ ~generated.raised
        /\ generated.provider_calls = 0
        /\ generated.text = "no_data"
        /\ AggregateKeys \subseteq DOMAIN generated.aggregate
        /\ generated.aggregate.total_comments = 0

\* C7: for non-empty evidence, when the narrative call fails the function
\* does not raise and returns an error text with the aggregate computed
\* before the call, one it returns with the same evidence on success.
C7_NarrativeFailureKeepsAggregate ==
    (/\ generated.op = "generated"
     /\ generated.in.evidence # <<>>
     /\ generated.in.genLlm
     /\ ~generated.in.narrativeOk) =>
        /\ ~generated.raised
        /\ generated.text = "error"
        /\ generated.aggregate = generated.stats
        /\ \E o \in GenerateOutcomes([generated.in EXCEPT !.narrativeOk = TRUE]) :
              /\ o.text \in {"analysis", "summary"}
              /\ o.aggregate = generated.aggregate

\* A failed narrative call over two items scored (1, 0, 0) and (0.5, 0.5, 0).
C7_Witness ==
    /\ generated.op = "generated"
    /\ generated.in.genLlm /\ ~generated.in.narrativeOk /\ generated.in.scorerLlm
    /\ generated.text = "error"
    /\ DOMAIN generated.aggregate = AggregateKeys
    /\ generated.aggregate.total_comments = 2
    /\ generated.aggregate.positive = 750
    /\ generated.aggregate.negative = 250
    /\ generated.aggregate.dominant = "positive"

\* The label of the largest mean, ties broken positive > negative > neutral.
ArgMaxLabel(p, n, u) ==
    IF p >= n /\ p >= u THEN "positive"
    ELSE IF n >= u THEN "negative"
    ELSE "neutral"

\* Whether r thousandths is num / den rounded to three decimals.
IsRounded(r, num, den) ==
    2 * (1000 * num - r * den) <= den /\ 2 * (r * den - 1000 * num) <= den

\* C8: for non-empty evidence the aggregate's positive, negative and
\* neutral are the unweighted means of the items' components (to the three
\* decimals kept), and dominant is the label of the largest mean, ties
\* broken by the precedence positive > negative > neutral.
C8_MeansAndDominant ==
    (generated.op = "generated" /\ generated.in.evidence # <<>> /\ ~generated.raised) =>
        LET ss == Sentiments(generated.in.scorerLlm, generated.in.evidence)
            den == DenProduct(ss, Len(ss)) * Len(ss)
            p == ComponentSum(ss, "positive", Len(ss))
            n == ComponentSum(ss, "negative", Len(ss))
            u == ComponentSum(ss, "neutral", Len(ss))
        IN  /\ IsRounded(generated.aggregate.positive, p, den)
            /\ IsRounded(generated.aggregate.negative, n, den)
            /\ IsRounded(generated.aggregate.neutral, u, den)
            /\ generated.aggregate.dominant = ArgMaxLabel(p, n, u)

(***************************************************************************)
(* Claims about process_message.                                           *)
(***************************************************************************)
\* C11: after every completed process_message call on conversation c the
\* stored history of c holds at most 20 messages, they are the 20 most
\* recent messages of c in their original order, and they end with the user
\* message of that call followed by its assistant reply.
C11_HistoryIsLastTwenty ==
    result.op = "chat" =>
        LET h == History(result.conv)
        IN  /\ Len(h) <= HistoryLimit
            /\ h = LastN(log[result.conv], HistoryLimit)
            /\ Len(h) >= 2
            /\ h[Len(h) - 1] = UserMessage(result.call)
            /\ h[Len(h)] = AssistantMessage(result.call)

\* The position of a message in a history (0 when it is absent).
PositionIn(h, m) ==
    IF \E i \in DOMAIN h : h[i] = m THEN CHOOSE i \in DOMAIN h : h[i] = m ELSE 0

\* C12: when two process_message calls on one conversation overlapped, the
\* stored history once both have completed holds both user messages and
\* both replies, each user message immediately followed by its own reply.
C12_OverlappingCallsSerialized ==
    (/\ result.op = "chat"
     /\ inflight = Empty
     /\ nextCall = 2
     /\ log[result.conv][1] = UserMessage(1)
     /\ log[result.conv][2] = UserMessage(2)) =>
        LET h == History(result.conv)
        IN  \A k \in 1..2 :
              /\ PositionIn(h, UserMessage(k)) > 0
              /\ PositionIn(h, AssistantMessage(k)) = PositionIn(h, UserMessage(k)) + 1

(***************************************************************************)
(* Claims about the document service as concurrent requests.               *)
(***************************************************************************)
\* The ingestions of document d in flight: its upload and the reindex calls
\* suspended while reprocessing it.
IngestionsInFlight(d) ==
    (IF d \in DOMAIN uploads THEN 1 ELSE 0)
    + Cardinality({r \in DOMAIN reindexes : reindexes[r].doc = d})

C14_DeleteAllOrNothing ==
    [][(result'.op = "delete" /\ result'.id \in DOMAIN document_metadata) =>
          \/ /\ ~result'.raised
             /\ result'.id \notin DOMAIN document_metadata'
             /\ result'.id \notin DOMAIN files'
             /\ \A i \in DOMAIN collection' :
                   collection'[i].metadata.document_id # result'.id
          \/ /\ result'.raised
             /\ document_metadata' = document_metadata
             /\ files' = files
             /\ collection' = collection]_vars

\* C15: every status assignment follows one of the edges pending ->
\* processing, processing -> completed, processing -> failed, completed ->
\* processing, and a new source starts at pending.
C15_StatusEdges ==
    edges \subseteq {<<NoStatus, "pending">>, <<"pending", "processing">>,
                     <<"processing", "completed">>, <<"processing", "failed">>,
                     <<"completed", "processing">>}

\* C15 as amended: a new source starts at processing, and every status
\* assignment follows one of the edges processing -> completed,
\* processing -> failed, completed -> processing.
C15_StatusEdgesFromProcessing ==
    edges \subseteq {<<NoStatus, "processing">>,
                     <<"processing", "completed">>, <<"processing", "failed">>,
                     <<"completed", "processing">>}

\* Every edge has been taken, and a reindexed document has failed.
C15_Witness ==
    /\ edges = {<<NoStatus, "processing">>,
                <<"processing", "completed">>, <<"processing", "failed">>,
                <<"completed", "processing">>}
    /\ result.op = "reindex" /\ result.failed

C17_BatchContinuesAfterFailure ==
    (result.op = "upload" /\ result.loaded) => result.attempted = result.chunks

\* C18: a reindex_all_documents call in which reprocessing a document failed
\* does not raise.
C18_ReindexIsolatesFailures ==
    (result.op = "reindex" /\ result.failed) => ~result.raised

\* C19: every item of a source carries a version, the source's current one.
C19_ItemsCarryCurrentVersion ==
    \A i \in DOMAIN collection : "version" \in DOMAIN collection[i].metadata

\* C20: distinct chunks get distinct item ids: after an upload that did not
\* raise, the store holds one item of the document per processed chunk.
C20_OneItemPerChunk ==
    (result.op = "upload" /\ ~result.raised) =>
        Cardinality(ItemsOf(result.value)) = result.chunks

(***************************************************************************)
(* Claims about operations called with ids.                                *)
(***************************************************************************)
\* C21: operations on unknown ids are no-ops, not errors: clear_conversation
\* on an id without history returns normally and leaves every conversation
\* as it was; delete_document on an unknown id returns False and changes
\* neither the registry, the files nor the collection;
\* get_conversation_history on an unknown id returns the empty list and
\* creates no entry.
C21_UnknownIdsAreNoOps ==
    [][/\ (result'.op = "clear" /\ result'.conv \notin DOMAIN conversation_history) =>
             /\ ~result'.raised
             /\ conversation_history' = conversation_history
             /\ \A c \in DOMAIN conversation_history :
                   lists'[conversation_history'[c]] = lists[conversation_history[c]]
       /\ (result'.op = "delete" /\ result'.id \notin DOMAIN document_metadata) =>
             /\ ~result'.raised
             /\ result'.value = FALSE
             /\ document_metadata' = document_metadata
             /\ files' = files
             /\ collection' = collection
       /\ (result'.op = "history" /\ result'.conv \notin DOMAIN conversation_history) =>
             /\ ~result'.raised
             /\ result'.value = <<>>
             /\ conversation_history' = conversation_history]_vars

\* clear_conversation has returned for the id that was never used while
\* another conversation holds an exchange and a document is registered with
\* its items in the collection.
C21_Witness ==
    /\ result.op = "clear" /\ result.conv = StrangerId /\ ~result.raised
    /\ FirstConversation \in DOMAIN conversation_history
    /\ Len(History(FirstConversation)) = 2
    /\ DOMAIN document_metadata # {}
    /\ DOMAIN collection # {}

(***************************************************************************)
(* Claims about comment ingestion and the minimum segment length.          *)
(***************************************************************************)
\* C22: when n >= 1 raw comments have been ingested for a source and the
\* topic is queried next with a top_k of at least n, the query does not
\* raise, its aggregate has a total of n items and its text is not empty.
C22_QueryCountsIngestedComments ==
    [][(/\ result.op = "collect_video" /\ ~result.raised
        /\ result.collected >= 1
        /\ result'.op = "query_opinion"
        /\ result.collected <= result'.k) =>
          /\ ~result'.raised
          /\ "total_comments" \in DOMAIN result'.aggregate
          /\ result'.aggregate.total_comments = result.collected
          /\ result'.text # ""]_vars

\* C23: no segment of fewer than 10 characters after normalization is ever
\* in the store, whether it came from a comment or from an uploaded
\* document, and a video collection that dropped short comments did not
\* raise.
C23_NoShortSegmentStored ==
    /\ \A i \in DOMAIN collection : TextLength(collection[i].content) >= MinCommentLength
    /\ (/\ result.op = "collect_video"
        /\ \A n \in DOMAIN result.comments :
              CleanedLength(result.comments[n]) < MinCommentLength) => ~result.raised

\* The comments of a list that _process_comments does not skip.
Kept(comments) ==
    {n \in DOMAIN comments : CleanedLength(comments[n]) >= MinCommentLength}

\* C30: a comment collection for which the source returned comments does
\* not raise, and reports the number of comments collected and one
\* processed chunk for every comment of 10 or more cleaned characters.
C30_CommentIngestionCompletes ==
    (result.op \in {"collect_video", "collect_topic"} /\ result.collected >= 1) =>
        /\ ~result.raised
        /\ result.chunks = Cardinality(Kept(result.comments))

(***************************************************************************)
(* Claims about stored sentiment.                                          *)
(***************************************************************************)
HasSentiment(e) == e.sentiment # NoSentiment

StoredAsScores(evidence) ==
    [i \in DOMAIN evidence |-> [raised |-> FALSE, vector |-> evidence[i].sentiment]]

\* C24: for non-empty evidence, a generator whose narrative call is made
\* calls the provider once for the narrative and once more for each item
\* without stored sentiment only; when every item carries stored sentiment
\* the aggregate is the one computed from the stored values.
C24_StoredSentimentReused ==
    (/\ generated.op = "generated"
     /\ generated.in.evidence # <<>>
     /\ generated.in.genLlm /\ generated.in.scorerLlm
     /\ ~generated.raised) =>
        LET ev == generated.in.evidence
        IN  /\ generated.provider_calls
                 = 1 + Cardinality({i \in DOMAIN ev : ~HasSentiment(ev[i])})
            /\ (\A i \in DOMAIN ev : HasSentiment(ev[i])) =>
                  generated.aggregate \in SentimentStats(StoredAsScores(ev))

(***************************************************************************)
(* Claims about the conversation state.                                    *)
(***************************************************************************)
\* C25: get_conversation_history never returns more than 20 messages, also
\* while a process_message call on the conversation is suspended.
C25_HistoryAtMostTwenty ==
    result.op = "history" => Len(result.value) <= HistoryLimit

\* C26: when clear_conversation(c) has returned and the next thing to
\* happen on c is the completion of a process_message call that was in
\* flight during the clear, the conversation is still absent afterwards.
C26_ClearedStaysAbsent ==
    [][(/\ result.op = "clear"
        /\ result'.op = "chat"
        /\ result'.conv = result.conv) =>
          result'.conv \notin DOMAIN conversation_history']_vars

Alternates(h) ==
    \A i \in DOMAIN h : h[i].role = IF i % 2 = 1 THEN "user" ELSE "assistant"

\* C27: under sequential use, whenever no call is in flight every stored
\* history is non-empty, of even length, and alternates user, assistant,
\* starting with a user message.
C27_HistoryAlternates ==
    inflight = Empty =>
        \A c \in DOMAIN conversation_history :
            /\ History(c) # <<>>
            /\ Len(History(c)) % 2 = 0
            /\ Alternates(History(c))

\* The call that took the error path has just ended a history that was
\* truncated: 20 messages are stored and the first exchange is gone.
C27_Witness ==
    /\ inflight = Empty
    /\ result.op = "chat" /\ result.error
    /\ Len(History(FirstConversation)) = HistoryLimit
    /\ History(FirstConversation)[1] = UserMessage(2)
    /\ History(FirstConversation)[HistoryLimit] = AssistantMessage(result.call)

(***************************************************************************)
(* Claims about re-indexing next to other requests, and about progress.    *)
(***************************************************************************)
\* C28: reindex_all_documents does not raise, also when an upload or a
\* delete_document call changed the registry while it was suspended.
C28_ReindexSurvivesRegistryChange ==
    result.op = "reindex" => ~result.raised

Processing(d) == d \in DOMAIN document_metadata /\ document_metadata[d] = "processing"

\* No registry entry is at processing unless an upload or a reindex of that
\* document is in flight.
NoStaleProcessing ==
    \A d \in DocIds : Processing(d) => IngestionsInFlight(d) = 1

\* C29 as stated: when every provider call returns or raises, a document
\* whose status is processing eventually has status completed or failed, and
\* no entry is at processing once the operation that set it has finished.
C29_ProcessingEnds ==
    /\ \A d \in DocIds :
          Processing(d) ~>
              (d \in DOMAIN document_metadata
               /\ document_metadata[d] \in {"completed", "failed"})
    /\ []NoStaleProcessing

\* C29, amended: when every provider call returns or raises, a document
\* whose status is processing eventually has status completed or failed or
\* has been removed from the registry by delete_document, and no entry is at
\* processing once the operation that set it has finished.
C29_ProcessingEndsOrDeleted ==
    /\ \A d \in DocIds :
          Processing(d) ~>
              (d \in deleted
               \/ (d \in DOMAIN document_metadata
                   /\ document_metadata[d] \in {"completed", "failed"}))
    /\ []NoStaleProcessing

\* Every operation has finished; the last one is the upload of a document
\* that was deleted while it was being processed, and a reindex has taken
\* another document from completed to processing and to its final status.
C29_Witness ==
    /\ result.op = "upload" /\ result.raised /\ result.value \in deleted
    /\ uploads = Empty /\ reindexes = Empty
    /\ <<"completed", "processing">> \in edges
    /\ \E d \in DOMAIN document_metadata :
          document_metadata[d] \in {"completed", "failed"}

====
